---- MODULE Spec2Model ----
(***************************************************************************)
(* Fragment3D: the asset-generation pipeline of backend/routes/create.js   *)
(* (POST /api/create/upload: Phase 1 up to the reply, Phase 2 in the       *)
(* detached async block), the asset routes of backend/routes/assets.js     *)
(* (upload-image, attach-glb, get by id, delete) and the store they share: *)
(* the users collection with its assets subdocument array                  *)
(* (backend/models/User.js) and the two upload directories.                *)
(*                                                                         *)
(* Every `await` of a handler is a point where another handler may run, so *)
(* a handler is cut into one action per database round trip.  A save() of  *)
(* a loaded user document is what Mongoose sends for the changes the code  *)
(* made to it:                                                             *)
(*   assets.push(x)        -> $push, version incremented, no version test  *)
(*   sub.field = v         -> $set on that element, sent with the version  *)
(*                            that was loaded; refused (VersionError) when *)
(*                            the array changed since                      *)
(*   assets.unshift(x)     -> $set of the whole array as loaded, sent with *)
(*                            the loaded version, version incremented      *)
(*   sub.deleteOne()       -> $pull by _id, version incremented            *)
(* and only paths declared by assetSchema are stored.                      *)
(***************************************************************************)
EXTENDS Naturals, Integers, Sequences, FiniteSets, TLC

\* ---------------------------------------------------------------- bounds
MaxOps == 2            \* requests to the asset routes in one behaviour

\* The two POST /api/create/upload requests; the asset a request creates is
\* named after it.  Assets created by upload-image are named after the
\* request to the asset routes that created them.
Reqs == {1, 2}
DirectIds == {2 + k : k \in 1..MaxOps}
AssetIds == Reqs \cup DirectIds

\* ------------------------------------------------------------ data model
Users == {"u1", "u2"}          \* user documents of the collection
Uploader == "u1"               \* the user who sends the generation requests
NoUid == "none"                \* request without req.userId
GhostUid == "ghost"            \* token of a user whose document is gone
Uids == {Uploader, NoUid, GhostUid}

\* A locator: the URL of a stored file (dir images | glb), of a file held
\* elsewhere (dir ext), or null.
Null == [dir |-> "null", tag |-> "null", n |-> 0]
ExtUrl == [dir |-> "ext", tag |-> "ext", n |-> 0]
InUrl(r) == [dir |-> "images", tag |-> "input", n |-> r]
SegUrl(r) == [dir |-> "images", tag |-> "processed", n |-> r]
DiagUrl(r) == [dir |-> "images", tag |-> "diag3d", n |-> r]
GlbUrl(r) == [dir |-> "glb", tag |-> "generated", n |-> r]
AttUrl(k) == [dir |-> "glb", tag |-> "attached", n |-> k]

\* What the leading bytes of a stored file say it is.
Kinds == {"png", "jpeg", "webp", "glb", "other"}

\* The paths assetSchema declares; a value set on any other path of an asset
\* subdocument is not stored.
AssetPaths == {"_id", "imageUrl", "glbUrl", "status", "meta", "createdAt"}
StatusEnum == {"pending", "processing", "ready", "failed"}

VARIABLES
    db,        \* [Users -> [v: version key __v, assets: sequence of records]]
    files,     \* the upload directories: locator -> kind of the bytes
    req,       \* per create/upload request: position and locals
    sent,      \* per create/upload request: the responses written to res
    op,        \* the asset-route request in flight (between its awaits)
    out,       \* the response an asset route wrote in the last step, if any
    nOps,      \* requests to the asset routes so far
    deleted,   \* ids of the assets removed by DELETE so far
    poll,      \* a call of the frontend's pollForAsset
    cls,       \* a call of detectMimeFromBuffer
    uri,       \* a data URI on its way through a stage's normalisation
    gen,       \* the seed and the payload computed for /process_3d
    norm       \* a stage's output on its way through the normalisation

\* The backend, and the functions studied on their own.
main == <<db, files, req, sent, op, out, nOps, deleted>>
side == <<poll, cls, uri, gen, norm>>
vars == <<db, files, req, sent, op, out, nOps, deleted, poll, cls, uri, gen, norm>>

\* ------------------------------------------------------- record helpers
IndexOfLast(assets, id) == Len(assets)

IndexOf(assets, id) ==
    IF \E i \in DOMAIN assets : assets[i]._id = id
    THEN CHOOSE i \in DOMAIN assets : assets[i]._id = id
    ELSE 0

\* User.findById(req.userId): the user document a request for asset id, made
\* with the token of user u, loads.
CollAny(u, id) ==
    IF \E w \in Users : IndexOf(db[w].assets, id) # 0
    THEN CHOOSE w \in Users : IndexOf(db[w].assets, id) # 0
    ELSE u

Coll(u, id) == u

\* (user.assets || []).id(assetId) on that document.
FindAsset(u, id) == IndexOf(db[Coll(u, id)].assets, id)

HasAsset(u, id) == FindAsset(u, id) # 0
AssetOf(u, id) == db[Coll(u, id)].assets[FindAsset(u, id)]

\* Assignments to a subdocument, as save() stores them: schema paths only.
Assign(rec, upd) ==
    [p \in DOMAIN rec |-> IF p \in DOMAIN upd THEN upd[p] ELSE rec[p]]

\* The record a create/upload request pushes (create.js newAsset).
NewAsset(r) ==
    [_id |-> r, imageUrl |-> InUrl(r), glbUrl |-> Null, status |-> "pending",
     meta |-> [segmentedImage |-> Null], createdAt |-> TRUE]

\* The record upload-image unshifts (assets.js asset).
DirectAsset(id, url) ==
    [_id |-> id, imageUrl |-> url, glbUrl |-> Null, status |-> "pending",
     meta |-> [segmentedImage |-> Null], createdAt |-> TRUE]

\* What a positional $set leaves at a position the array does not have: an
\* element made of the assigned paths alone.
Blank ==
    [_id |-> 0, imageUrl |-> Null, glbUrl |-> Null, status |-> "pending",
     meta |-> [segmentedImage |-> Null], createdAt |-> FALSE]

\* save() of changes made to the subdocument at position idx of the loaded
\* array: a $set on "assets.<idx>.<path>", whatever element is there now.
SetAt(u, idx, upd) ==
    LET assets == db[u].assets
    IN [db EXCEPT ![u].assets =
           IF idx \in DOMAIN assets
           THEN [assets EXCEPT ![idx] = Assign(assets[idx], upd)]
           ELSE Append(assets, Assign(Blank, upd))]

\* The version test of a save(): the update is sent with the version key the
\* document was loaded with, and matches no document once that has moved.
FreshAlways(u, ver) == TRUE

Fresh(u, ver) == db[u].v = ver

\* A positional $set is accepted when the write reaches the database and the
\* version key still has the value the document was loaded with.
CanSet(u, ver, id, ok) == ok /\ Fresh(Coll(u, id), ver)

\* sub.deleteOne(): the array without the element with this _id.
RemoveNothing(assets, id) == assets

Remove(assets, id) == SelectSeq(assets, LAMBDA a : a._id # id)

\* detected && detected.mime.startsWith("image/")
IsImageAlways(kind) == TRUE

IsImage(kind) == kind \in {"png", "jpeg", "webp"}

\* ------------------------------------------------ the remote service's replies
\* The shapes create.js tells apart in a stage's output (rawOut, raw3d).
Shapes == {"dataUri", "dataOther", "url", "base64", "string", "buffer",
           "objUrl", "objPath", "objOther", "objNumber", "nullish"}
FetchOutcomes == {"ok", "notOk", "throws"}
InputKinds == {"png", "other"}
SegKinds == {"png", "other"}
MeshKinds == {"glb", "other"}

\* An object whose url/link/path/file is a value without startsWith (a
\* number, an object): candidateUrl.startsWith throws a TypeError.
Throws(shape) == shape = "objNumber"

\* Shapes resolved by fetch(): a "data:" string the regexp does not match, an
\* http(s) string, an object whose url/link/path/file is an http(s) string.
Fetched(shape) == shape \in {"dataOther", "url", "objUrl"}

\* Normalisation of /process_image output: whether a file is written to the
\* images directory, and the kind of its bytes.  Whatever is written is what
\* segmentedImageUrl is set to, the "txt" diagnostics included.
SegSaves(shape, fetch) ==
    IF Fetched(shape) THEN fetch = "ok" ELSE TRUE

\* The shapes written as a "txt" diagnostic.
SegDiag(shape) == shape \in {"string", "objPath", "objOther", "nullish"}

\* Normalisation of /process_3d output: whether glbUrl is set (a file is
\* written to the glb directory) ...
MeshSaves(shape, fetch) ==
    IF Fetched(shape) THEN fetch = "ok"
    ELSE shape \in {"dataUri", "base64", "buffer"}

\* ... and whether a diagnostic is written to the images directory instead.
MeshDiag(shape) == shape \in {"objPath", "objOther"}

\* ------------------------------------------------------ requests in flight
NoAsset == [_id |-> 0]
NoOut == [kind |-> "none", code |-> 0, uid |-> NoUid, aid |-> 0, asset |-> NoAsset]

\* A step that answers no request to the asset routes.
Quiet == out' = NoOut

IdleOp ==
    [kind |-> "none", uid |-> NoUid, aid |-> 0, fver |-> 0, url |-> Null, snap |-> <<>>]

\* -------------------------------------------------- POST /api/create/upload
\* Positions of the handler before res.json (Phase 1) and of the detached
\* block after it (Phase 2).
Phase1 == {"idle", "create", "segment", "segFind", "segSave", "reply"}
Phase2 == {"seed", "mesh", "abortFind", "abortSave", "glbFind", "glbSave"}

IdleReq ==
    [pc |-> "idle", uid |-> NoUid, ver |-> 0, idx |-> 0, segHow |-> "none",
     segUrl |-> Null, fver |-> 0, fidx |-> 0, found |-> FALSE,
     snapStatus |-> "pending", seedHow |-> "none", src |-> "none",
     meshKind |-> "none", warned |-> FALSE, glbUrl |-> Null]

Response(code, aid, seg) ==
    [code |-> code, assetId |-> aid, segmentedImageUrl |-> seg]

SendTwice(r, resp) == sent' = [sent EXCEPT ![r] = Append(Append(@, resp), resp)]

Send(r, resp) == sent' = [sent EXCEPT ![r] = Append(@, resp)]

Goto(r, rec) == req' = [req EXCEPT ![r] = rec]

\* The outer catch: 500, unless a response was sent already.
OuterCatch(r) ==
    IF sent[r] = <<>> THEN Send(r, Response(500, 0, Null)) ELSE UNCHANGED sent

\* The immediate response (immediateResponse, res.json).
ReplyBodyStored(r) == Response(200, r, SegUrl(r))

ReplyBody(r) == Response(200, r, req[r].segUrl)

\* The changes Phase 1 makes to the asset once a segmented image is stored.
SegUpdate(url) == [meta |-> [segmentedImage |-> url]]

\* The changes Phase 2 makes to the asset once a mesh is stored.
GlbUpdateNoStatus(url) ==
    [glbUrl |-> url, updatedAt |-> TRUE, generatedAt |-> TRUE]

GlbUpdate(url) ==
    [glbUrl |-> url, status |-> "ready", updatedAt |-> TRUE, generatedAt |-> TRUE]

\* sub3.status = sub3.status || "pending"
AbortStatusPending(status) == "pending"

AbortStatusFailed(status) == "failed"

AbortStatus(status) == IF status \in StatusEnum THEN status ELSE "pending"

\* Strings the fileFilter looks into, as sequences of characters.
Exts == {<<".", "p", "n", "g">>, <<".", "P", "N", "G">>, <<".", "j", "p", "g">>,
         <<".", "j", "p", "e", "g">>, <<".", "w", "e", "b", "p">>,
         <<".", "a", "p", "n", "g">>, <<".", "g", "i", "f">>, <<>>}
Mimes == {<<"i", "m", "a", "g", "e", "/", "p", "n", "g">>,
          <<"i", "m", "a", "g", "e", "/", "j", "p", "e", "g">>,
          <<"i", "m", "a", "g", "e", "/", "w", "e", "b", "p">>,
          <<"i", "m", "a", "g", "e", "/", "g", "i", "f">>}

\* String.prototype.toLowerCase, on the letters that occur.
ToLower(s) ==
    [i \in DOMAIN s |-> CASE s[i] = "P" -> "p" [] s[i] = "N" -> "n"
                            [] s[i] = "G" -> "g" [] OTHER -> s[i]]

Contains(s, w) ==
    \E i \in 1..(Len(s) - Len(w) + 1) : SubSeq(s, i, i + Len(w) - 1) = w

\* allowedTypes.test(s) with allowedTypes = /jpeg|jpg|png/
AllowedTypes(s) ==
    \/ Contains(s, <<"j", "p", "e", "g">>)
    \/ Contains(s, <<"j", "p", "g">>)
    \/ Contains(s, <<"p", "n", "g">>)

\* multer's fileFilter: cb(null, true) or cb(new Error(...)).
FileFilterEither(ext, mime) == AllowedTypes(ToLower(ext)) \/ AllowedTypes(mime)

FileFilter(ext, mime) == AllowedTypes(ToLower(ext)) /\ AllowedTypes(mime)

\* What a request with a file part is, as far as the handler tells requests
\* apart: refused by multer (fileFilter, size limit; nothing is stored), or
\* stored with the kind of its bytes and the user the token names.
InputOf(ext, mime, big, uid, kind) ==
    IF FileFilter(ext, mime) /\ ~big
    THEN [how |-> "stored", uid |-> uid, kind |-> kind]
    ELSE [how |-> "refused", uid |-> NoUid, kind |-> "other"]

UploadInputs ==
    {[how |-> "noFile", uid |-> NoUid, kind |-> "other"]}
    \cup {InputOf(ext, mime, big, uid, kind) :
             ext \in Exts, mime \in Mimes, big \in BOOLEAN,
             uid \in Uids, kind \in InputKinds}

\* multer (fileFilter, diskStorage), then the handler up to and including
\* const user = await User.findById(uid).
UploadStart(r) ==
    /\ req[r].pc = "idle"
    /\ \E in \in UploadInputs :
        /\ files' = IF in.how = "stored" THEN files @@ (InUrl(r) :> in.kind) ELSE files
        /\ IF in.how # "stored"
           THEN /\ Send(r, Response(400, 0, Null))
                /\ Goto(r, [req[r] EXCEPT !.pc = "done"])
           ELSE IF in.uid = NoUid
           THEN /\ Send(r, Response(401, 0, Null))
                /\ Goto(r, [req[r] EXCEPT !.pc = "done"])
           ELSE IF in.uid \notin Users
           THEN /\ Send(r, Response(404, 0, Null))
                /\ Goto(r, [req[r] EXCEPT !.pc = "done"])
           ELSE /\ Goto(r, [req[r] EXCEPT !.pc = "create", !.uid = in.uid,
                                          !.ver = db[in.uid].v])
                /\ UNCHANGED sent
    /\ UNCHANGED <<db, op, nOps, deleted, side>>
    /\ Quiet

\* What follows the creation of the record: STEP A.
AfterCreateReply == "reply"

AfterCreate == "segment"

\* user.assets.push(newAsset); await user.save().  A failed save is thrown to
\* the outer catch, which answers 500 as nothing was sent yet.
UploadCreate(r) ==
    /\ req[r].pc = "create"
    /\ \E ok \in BOOLEAN :
        IF ok
        THEN /\ db' = [db EXCEPT ![req[r].uid] =
                        [v |-> @.v + 1, assets |-> Append(@.assets, NewAsset(r))]]
             /\ Goto(r, [req[r] EXCEPT !.pc = AfterCreate, !.ver = @ + 1,
                                       !.idx = Len(db[req[r].uid].assets) + 1])
             /\ UNCHANGED sent
        ELSE /\ OuterCatch(r)
             /\ Goto(r, [req[r] EXCEPT !.pc = "done"])
             /\ UNCHANGED db
    /\ UNCHANGED <<files, op, nOps, deleted, side>>
    /\ Quiet

\* STEP A as a whole: connect, read the upload, predict("/process_image"),
\* normalise the output and write the file.  Anything thrown is caught
\* (grErr) and leaves segmentedImageUrl null.
\*   "throws"  the call, the read of the upload or the write threw
\*   "empty"   the output was fetched without success: nothing is written
\*   "diag"    the output was not recognised: a diagnostic is written
\*   "stored"  the output was resolved to bytes, which are written
SegResult(r, call, shape, fetch, kind, disk) ==
    IF call = "throws" \/ InUrl(r) \notin DOMAIN files \/ Throws(shape)
    THEN [how |-> "throws", kind |-> "other"]
    ELSE IF ~SegSaves(shape, fetch)
    THEN [how |-> "empty", kind |-> "other"]
    ELSE IF ~disk
    THEN [how |-> "throws", kind |-> "other"]
    ELSE IF SegDiag(shape)
    THEN [how |-> "diag", kind |-> "other"]
    ELSE [how |-> "stored", kind |-> kind]

UploadSegment(r) ==
    /\ req[r].pc = "segment"
    /\ \E res \in {SegResult(r, call, shape, fetch, kind, disk) :
                     call \in {"throws", "returns"}, shape \in Shapes,
                     fetch \in FetchOutcomes, kind \in SegKinds, disk \in BOOLEAN} :
        IF res.how \in {"stored", "diag"}
        THEN /\ files' = files @@ (SegUrl(r) :> res.kind)
             /\ Goto(r, [req[r] EXCEPT !.pc = "segFind", !.segHow = res.how,
                                       !.segUrl = SegUrl(r)])
        ELSE /\ Goto(r, [req[r] EXCEPT !.pc = "reply", !.segHow = res.how])
             /\ UNCHANGED files
    /\ UNCHANGED <<db, sent, op, nOps, deleted, side>>
    /\ Quiet

\* const freshUser = await User.findById(uid); sub = freshUser.assets.id(assetId)
UploadSegFind(r) ==
    /\ req[r].pc = "segFind"
    /\ Goto(r, [req[r] EXCEPT !.pc = "segSave", !.fver = db[req[r].uid].v,
                              !.fidx = FindAsset(req[r].uid, r),
                              !.found = HasAsset(req[r].uid, r)])
    /\ UNCHANGED <<db, files, sent, op, nOps, deleted, side>>
    /\ Quiet

\* sub.meta.segmentedImage = ...; await freshUser.save()  -- or, when the
\* fresh document has no such asset, the same on the document loaded at the
\* start (createdAsset, user.save()).  A refused save is caught (grErr).
UploadSegSave(r) ==
    /\ req[r].pc = "segSave"
    /\ \E ok \in BOOLEAN :
        LET ver == IF req[r].found THEN req[r].fver ELSE req[r].ver
            idx == IF req[r].found THEN req[r].fidx ELSE req[r].idx
        IN IF CanSet(req[r].uid, ver, r, ok)
           THEN db' = SetAt(req[r].uid, idx, SegUpdate(req[r].segUrl))
           ELSE UNCHANGED db
    /\ Goto(r, [req[r] EXCEPT !.pc = "reply", !.fver = 0, !.fidx = 0,
                              !.found = FALSE])
    /\ UNCHANGED <<files, sent, op, nOps, deleted, side>>
    /\ Quiet

\* res.json(immediateResponse); the detached block starts.
UploadReply(r) ==
    /\ req[r].pc = "reply"
    /\ Send(r, ReplyBody(r))
    /\ Goto(r, [req[r] EXCEPT !.pc = "seed"])
    /\ UNCHANGED <<db, files, op, nOps, deleted, side>>
    /\ Quiet

\* Where the task goes after /get_random_seed: on, whether the call returned
\* or threw (catch (seedErr)).
AfterSeedEscapes(call) == IF call = "failed" THEN "escaped" ELSE "mesh"

AfterSeed(call) == "mesh"

\* Phase 2: predict("/get_random_seed"); its failure is caught (seedErr).
UploadSeed(r) ==
    /\ req[r].pc = "seed"
    /\ \E call \in {"failed", "returned"} :
        Goto(r, [req[r] EXCEPT !.pc = AfterSeed(call), !.seedHow = call])
    /\ UNCHANGED <<db, files, sent, op, nOps, deleted, side>>
    /\ Quiet

\* The path read for /process_3d: the segmented image when one was stored and
\* its file exists, else the original upload.
SegLocalPathOriginal(r) == InUrl(r)

SegLocalPath(r) ==
    IF req[r].segUrl # Null /\ req[r].segUrl \in DOMAIN files
    THEN req[r].segUrl
    ELSE InUrl(r)

\* Phase 2 from the connect to the end of the normalisation: choose the
\* source image, predict("/process_3d"), normalise the output and write the
\* file.  Anything thrown is caught (gr3DErr) and ends the task.
\*   "ends"  nothing is produced        "abort"  neither image is an image
\*   "glb"   a mesh file is written     "diag"   a diagnostic is written
\* src is the file whose bytes are sent as input_image (bufferToSend), when
\* the task gets as far as predict("/process_3d").
MeshResult(r, connect, call, shape, fetch, kind, disk) ==
    LET path == SegLocalPath(r)
        readable == path \in DOMAIN files
        segIsImage == readable /\ IsImage(files[path])
        origReadable == InUrl(r) \in DOMAIN files
        origIsImage == origReadable /\ IsImage(files[InUrl(r)])
        src == IF segIsImage /\ path # InUrl(r) THEN "segmented" ELSE "original"
    IN IF connect = "throws" \/ ~readable \/ (~segIsImage /\ ~origReadable)
       THEN [what |-> "ends", kind |-> "other", src |-> "none"]
       ELSE IF ~segIsImage /\ ~origIsImage
       THEN [what |-> "abort", kind |-> "other", src |-> "none"]
       ELSE IF call = "returns" /\ ~Throws(shape) /\ MeshSaves(shape, fetch) /\ disk
       THEN [what |-> "glb", kind |-> kind, src |-> src]
       ELSE IF call = "returns" /\ ~Throws(shape) /\ MeshDiag(shape) /\ disk
       THEN [what |-> "diag", kind |-> "other", src |-> src]
       ELSE [what |-> "ends", kind |-> "other", src |-> src]

\* Where the task goes from there: if (glbUrl) { attach } else { warn }, and
\* the abort path.
AfterMeshAttach(what) == IF what = "abort" THEN "abortFind" ELSE "glbFind"

AfterMeshRetry(what) ==
    CASE what = "glb" -> "glbFind"
      [] what = "abort" -> "abortFind"
      [] OTHER -> "mesh"

AfterMesh(what) ==
    CASE what = "glb" -> "glbFind"
      [] what = "abort" -> "abortFind"
      [] OTHER -> "done"

\* buffer.slice(0, 4).toString() !== "glTF": the warning written after
\* saveBufferAsGlb.
MissingHeaderNever(kind) == FALSE

MissingHeader(kind) == kind # "glb"

UploadMesh(r) ==
    /\ req[r].pc = "mesh"
    /\ \E res \in {MeshResult(r, connect, call, shape, fetch, kind, disk) :
                     connect \in {"throws", "ok"}, call \in {"throws", "returns"},
                     shape \in Shapes, fetch \in FetchOutcomes, kind \in MeshKinds,
                     disk \in BOOLEAN} :
        /\ files' = CASE res.what = "glb" -> files @@ (GlbUrl(r) :> res.kind)
                       [] res.what = "diag" -> files @@ (DiagUrl(r) :> "other")
                       [] OTHER -> files
        /\ Goto(r, [req[r] EXCEPT !.pc = AfterMesh(res.what),
                                  !.src = res.src,
                                  !.meshKind = IF res.what = "glb" THEN res.kind ELSE "none",
                                  !.warned = res.what = "glb" /\ MissingHeader(res.kind),
                                  !.glbUrl = IF res.what = "glb" THEN GlbUrl(r) ELSE Null])
    /\ UNCHANGED <<db, sent, op, nOps, deleted, side>>
    /\ Quiet

\* Abort path: const freshUser3 = await User.findById(uid); sub3 = ...id(assetId)
UploadAbortFind(r) ==
    /\ req[r].pc = "abortFind"
    /\ Goto(r, [req[r] EXCEPT !.pc = "abortSave", !.fver = db[req[r].uid].v,
                              !.fidx = FindAsset(req[r].uid, r),
                              !.found = HasAsset(req[r].uid, r),
                              !.snapStatus = IF HasAsset(req[r].uid, r)
                                             THEN AssetOf(req[r].uid, r).status
                                             ELSE "pending"])
    /\ UNCHANGED <<db, files, sent, op, nOps, deleted, side>>
    /\ Quiet

\* Abort path: sub3.status = sub3.status || "pending"; await freshUser3.save().
\* A status left as it was is no change, and nothing is sent.
UploadAbortSave(r) ==
    /\ req[r].pc = "abortSave"
    /\ \E ok \in BOOLEAN :
        LET status == AbortStatus(req[r].snapStatus)
        IN IF /\ req[r].found
              /\ status # req[r].snapStatus
              /\ CanSet(req[r].uid, req[r].fver, r, ok)
           THEN db' = SetAt(req[r].uid, req[r].fidx, [status |-> status])
           ELSE UNCHANGED db
    /\ Goto(r, [req[r] EXCEPT !.pc = "done", !.fver = 0, !.fidx = 0,
                              !.found = FALSE, !.snapStatus = "pending"])
    /\ UNCHANGED <<files, sent, op, nOps, deleted, side>>
    /\ Quiet

\* const freshUser2 = await User.findById(uid); sub2 = ...id(assetId)
UploadGlbFind(r) ==
    /\ req[r].pc = "glbFind"
    /\ Goto(r, [req[r] EXCEPT !.pc = "glbSave", !.fver = db[req[r].uid].v,
                              !.fidx = FindAsset(req[r].uid, r),
                              !.found = HasAsset(req[r].uid, r)])
    /\ UNCHANGED <<db, files, sent, op, nOps, deleted, side>>
    /\ Quiet

\* sub2.glbUrl = ...; sub2.status = "ready"; ...; await freshUser2.save() -- or
\* the same on createdAsset and user.save().  A refused save is caught.
UploadGlbSave(r) ==
    /\ req[r].pc = "glbSave"
    /\ \E ok \in BOOLEAN :
        LET ver == IF req[r].found THEN req[r].fver ELSE req[r].ver
            idx == IF req[r].found THEN req[r].fidx ELSE req[r].idx
        IN IF CanSet(req[r].uid, ver, r, ok)
           THEN db' = SetAt(req[r].uid, idx, GlbUpdate(req[r].glbUrl))
           ELSE UNCHANGED db
    /\ Goto(r, [req[r] EXCEPT !.pc = "done", !.fver = 0, !.fidx = 0,
                              !.found = FALSE])
    /\ UNCHANGED <<files, sent, op, nOps, deleted, side>>
    /\ Quiet

\* ------------------------------------------------- backend/routes/assets.js
\* One request to the asset routes at a time: op holds it between its awaits.
InFlight == op.kind # "none"

\* res.status(code).json(...) of an asset route.
Answer(route, code, u, a, asset) ==
    out' = [kind |-> route, code |-> code, uid |-> u, aid |-> a, asset |-> asset]

AttachKinds == {"glb"}
DirectKinds == {"png"}
DirectUrl(id) == [dir |-> "images", tag |-> "direct", n |-> id]

\* The answer of a route that finds no such asset in the user's collection.
NotFound == 404

\* GET /api/assets/:assetId
GetAsset(u, a) ==
    /\ ~InFlight
    /\ nOps < MaxOps
    /\ nOps' = nOps + 1
    /\ IF HasAsset(u, a)
       THEN Answer("get", 200, u, a, AssetOf(u, a))
       ELSE Answer("get", NotFound, u, a, NoAsset)
    /\ UNCHANGED <<db, files, req, sent, op, deleted, side>>

\* The files DELETE unlinks: the image when its URL is under /uploads/images/,
\* the mesh when its URL is under /uploads/glb/.
Unlinked(asset) ==
    (IF asset.imageUrl.dir = "images" THEN {asset.imageUrl} ELSE {})
    \cup (IF asset.glbUrl.dir = "glb" THEN {asset.glbUrl} ELSE {})

Unlink(names) == [f \in DOMAIN files \ names |-> files[f]]

\* DELETE /api/assets/:assetId up to the save: load, look up, unlink.
DeleteBegin(u, a) ==
    /\ ~InFlight
    /\ nOps < MaxOps
    /\ nOps' = nOps + 1
    /\ IF HasAsset(u, a)
       THEN /\ files' = Unlink(Unlinked(AssetOf(u, a)))
            /\ op' = [IdleOp EXCEPT !.kind = "delete", !.uid = u, !.aid = a,
                                    !.snap = <<AssetOf(u, a)>>]
            /\ Quiet
       ELSE /\ Answer("delete", NotFound, u, a, NoAsset)
            /\ UNCHANGED <<files, op>>
    /\ UNCHANGED <<db, req, sent, deleted, side>>

\* DELETE: await sub.deleteOne(); await user.save(); res.json({success: true})
DeleteFinish ==
    /\ op.kind = "delete"
    /\ \E ok \in BOOLEAN :
        IF ok
        THEN /\ db' = [db EXCEPT ![Coll(op.uid, op.aid)] =
                        [v |-> @.v + 1, assets |-> Remove(@.assets, op.aid)]]
             /\ deleted' = deleted \cup {op.aid}
             /\ Answer("delete", 200, op.uid, op.aid, NoAsset)
        ELSE /\ Answer("delete", 500, op.uid, op.aid, NoAsset)
             /\ UNCHANGED <<db, deleted>>
    /\ op' = IdleOp
    /\ UNCHANGED <<files, req, sent, nOps, side>>

\* The changes attach-glb makes to the asset.
AttachUpdate(url) ==
    [glbUrl |-> url, status |-> "ready", updatedAt |-> TRUE, generatedAt |-> TRUE]

\* POST /api/assets/:assetId/attach-glb up to the save: multer stores the file
\* (if any), then load, look up, choose the URL.
AttachBegin(u, a) ==
    /\ ~InFlight
    /\ nOps < MaxOps
    /\ nOps' = nOps + 1
    /\ \E src \in {"file", "body", "neither"}, kind \in AttachKinds :
        /\ files' = IF src = "file" THEN files @@ (AttUrl(nOps + 1) :> kind) ELSE files
        /\ IF ~HasAsset(u, a)
           THEN /\ Answer("attach", NotFound, u, a, NoAsset)
                /\ UNCHANGED op
           ELSE IF src = "neither"
           THEN /\ Answer("attach", 400, u, a, NoAsset)
                /\ UNCHANGED op
           ELSE /\ op' = [IdleOp EXCEPT !.kind = "attach", !.uid = u, !.aid = a,
                                        !.fver = db[Coll(u, a)].v,
                                        !.url = IF src = "file" THEN AttUrl(nOps + 1)
                                                ELSE ExtUrl]
                /\ Quiet
    /\ UNCHANGED <<db, req, sent, deleted, side>>

\* attach-glb: await user.save(); res.json({asset})
AttachFinish ==
    /\ op.kind = "attach"
    /\ \E ok \in BOOLEAN :
        IF CanSet(op.uid, op.fver, op.aid, ok)
        THEN /\ db' = SetAt(Coll(op.uid, op.aid), FindAsset(op.uid, op.aid),
                             AttachUpdate(op.url))
             /\ Answer("attach", 200, op.uid, op.aid,
                       Assign(AssetOf(op.uid, op.aid), AttachUpdate(op.url)))
        ELSE /\ Answer("attach", 500, op.uid, op.aid, NoAsset)
             /\ UNCHANGED db
    /\ op' = IdleOp
    /\ UNCHANGED <<files, req, sent, nOps, deleted, side>>

\* POST /api/assets/upload-image up to the save: multer stores the file, then
\* load; the new asset is unshifted onto the array as loaded.
DirectBegin(u) ==
    /\ ~InFlight
    /\ nOps < MaxOps
    /\ nOps' = nOps + 1
    /\ \E file \in BOOLEAN, kind \in DirectKinds :
        LET id == 2 + nOps + 1
        IN IF ~file
           THEN /\ Answer("direct", 400, u, 0, NoAsset)
                /\ UNCHANGED <<files, op>>
           ELSE /\ files' = files @@ (DirectUrl(id) :> kind)
                /\ op' = [IdleOp EXCEPT !.kind = "direct", !.uid = u, !.aid = id,
                                        !.fver = db[u].v, !.snap = db[u].assets]
                /\ Quiet
    /\ UNCHANGED <<db, req, sent, deleted, side>>

\* upload-image: user.assets.unshift(asset); await user.save()
DirectFinish ==
    /\ op.kind = "direct"
    /\ \E ok \in BOOLEAN :
        IF ok /\ Fresh(op.uid, op.fver)
        THEN /\ db' = [db EXCEPT ![op.uid] =
                        [v |-> @.v + 1,
                         assets |-> <<DirectAsset(op.aid, DirectUrl(op.aid))>> \o op.snap]]
             /\ Answer("direct", 201, op.uid, op.aid,
                       DirectAsset(op.aid, DirectUrl(op.aid)))
        ELSE /\ Answer("direct", 500, op.uid, op.aid, NoAsset)
             /\ UNCHANGED db
    /\ op' = IdleOp
    /\ UNCHANGED <<files, req, sent, nOps, deleted, side>>

\* ------------------------------------------- frontend: pollForAsset (Create)
MaxAttempts == 3       \* largest attempt budget a call is given

\* What a fetch of the asset record comes to: a 2xx answer carrying the record
\* (its meta.segmentedImage and glbUrl, null when absent), an answer with
\* another status, or an exception (network error, body that is not JSON).
PollAnswers ==
    [kind : {"ok"}, code : {200}, seg : {Null, SegUrl(1)}, glb : {Null, GlbUrl(1)}]
    \cup [kind : {"status"}, code : {401, 403, 404, 500}, seg : {Null}, glb : {Null}]
    \cup [kind : {"throws"}, code : {0}, seg : {Null}, glb : {Null}]

NullResult == [isNull |-> TRUE, segmented |-> Null, glb |-> Null]
Found(segmented, glb) == [isNull |-> FALSE, segmented |-> segmented, glb |-> glb]

IdlePoll ==
    [pc |-> "idle", assetId |-> FALSE, needSegmented |-> FALSE, needGlb |-> FALSE,
     maxAttempts |-> 0, attempt |-> 0, log |-> <<>>, result |-> NullResult]

\* The calls: with or without an asset id, the two flags, the budget.
PollCalls ==
    {[IdlePoll EXCEPT !.pc = "start", !.assetId = id, !.needSegmented = ns,
                      !.needGlb = ng, !.maxAttempts = n] :
        id \in BOOLEAN, ns \in BOOLEAN, ng \in BOOLEAN, n \in 0..MaxAttempts}

\* for (...; attempt < maxAttempts; ...)
LoopTestInclusive(attempt, maxAttempts) == attempt <= maxAttempts

LoopTest(attempt, maxAttempts) == attempt < maxAttempts

\* resp.status === 401 || resp.status === 403
IsAuthErrorStrict(code) == code = 401

IsAuthError(code) == code \in {401, 403}

\* The if-chain on needSegmented / needGlb: whether this record is returned.
ReturnsEither(needSegmented, needGlb, segmented, glb) ==
    \/ needSegmented /\ segmented # Null
    \/ needGlb /\ glb # Null
    \/ ~needSegmented /\ ~needGlb

Returns(needSegmented, needGlb, segmented, glb) ==
    IF needSegmented /\ needGlb THEN segmented # Null /\ glb # Null
    ELSE IF needSegmented /\ segmented # Null THEN TRUE
    ELSE IF needGlb /\ glb # Null THEN TRUE
    ELSE IF ~needSegmented /\ ~needGlb THEN TRUE
    ELSE FALSE

PollReturn(result) == poll' = [poll EXCEPT !.pc = "done", !.result = result]

\* if (!assetId) return null; then the first test of the loop.
PollEnter ==
    /\ poll.pc = "start"
    /\ IF ~poll.assetId
       THEN PollReturn(NullResult)
       ELSE IF LoopTest(0, poll.maxAttempts)
       THEN poll' = [poll EXCEPT !.pc = "fetch"]
       ELSE PollReturn(NullResult)
    /\ UNCHANGED <<main, cls, uri, gen, norm>>

\* One pass through the try block: the fetch and what is made of its answer.
PollFetch ==
    /\ poll.pc = "fetch"
    /\ \E ans \in PollAnswers :
        LET logged == [poll EXCEPT !.log = Append(@, ans)]
        IN IF ans.kind = "status" /\ IsAuthError(ans.code)
           THEN poll' = [logged EXCEPT !.pc = "done", !.result = NullResult]
           ELSE IF /\ ans.kind = "ok"
                   /\ Returns(poll.needSegmented, poll.needGlb, ans.seg, ans.glb)
           THEN poll' = [logged EXCEPT !.pc = "done", !.result = Found(ans.seg, ans.glb)]
           ELSE poll' = [logged EXCEPT !.pc = "sleep"]
    /\ UNCHANGED <<main, cls, uri, gen, norm>>

\* await setTimeout(intervalMs); attempt++; the test of the loop; return null.
PollSleep ==
    /\ poll.pc = "sleep"
    /\ IF LoopTest(poll.attempt + 1, poll.maxAttempts)
       THEN poll' = [poll EXCEPT !.pc = "fetch", !.attempt = @ + 1]
       ELSE poll' = [poll EXCEPT !.pc = "done", !.attempt = @ + 1, !.result = NullResult]
    /\ UNCHANGED <<main, cls, uri, gen, norm>>

\* ------------------------------------------ create.js: detectMimeFromBuffer
\* A missing buffer (null, undefined).
NoBuf == <<-1>>

\* Buffer.prototype.slice(a, b): bytes a .. b-1, as far as the buffer goes.
Slice(buf, a, b) ==
    IF a >= Len(buf) THEN <<>>
    ELSE SubSeq(buf, a + 1, IF b < Len(buf) THEN b ELSE Len(buf))

Riff == <<82, 73, 70, 70>>
Webp == <<87, 69, 66, 80>>
Gltf == <<103, 108, 84, 70>>

\* if (!buf || buf.length < 12) return null
TooShortForSignature(buf) == buf = NoBuf \/ Len(buf) < 4

TooShort(buf) == buf = NoBuf \/ Len(buf) < 12

\* The kind detectMimeFromBuffer returns ("unknown" for null).
DetectMimeFromBuffer(buf) ==
    IF TooShort(buf) THEN "unknown"
    ELSE IF buf[1] = 137 /\ buf[2] = 80 /\ buf[3] = 78 /\ buf[4] = 71 THEN "png"
    ELSE IF buf[1] = 255 /\ buf[2] = 216 THEN "jpeg"
    ELSE IF Slice(buf, 0, 4) = Riff /\ Slice(buf, 8, 12) = Webp THEN "webp"
    ELSE IF Slice(buf, 0, 4) = Gltf THEN "glb"
    ELSE "unknown"

\* The buffers tried: a head of four bytes (a signature, or one that differs
\* from it in a byte), four bytes, a tail of four bytes (WEBP or not), one
\* byte more (of two values), cut at every length; and the missing buffer.
Heads == {<<137, 80, 78, 71>>, <<137, 80, 78, 0>>, <<255, 216, 255, 224>>,
          <<255, 217, 255, 224>>, Riff, Gltf, <<103, 108, 84, 0>>, <<0, 0, 0, 0>>}
Tails == {Webp, <<87, 69, 66, 0>>, <<0, 0, 0, 0>>}
Buffers ==
    UNION {{SubSeq(h \o <<0, 0, 0, 0>> \o t \o <<x>>, 1, n) :
               h \in Heads, t \in Tails, n \in 0..13} : x \in {0, 255}}
    \cup {NoBuf}

IdleCls == [pc |-> "idle", buf |-> NoBuf, kind |-> "unknown"]

Classify ==
    /\ cls.pc = "call"
    /\ cls' = [cls EXCEPT !.pc = "done", !.kind = DetectMimeFromBuffer(cls.buf)]
    /\ UNCHANGED <<main, poll, uri, gen, norm>>

\* --------------------------- create.js: a data URI through the normalisation
\* Base64: three bytes to four characters (a character is its value 0..63, or
\* Pad for "="), and back as Buffer.from(s, "base64") reads it.
Pad == 64

RECURSIVE Base64(_)
Base64(b) ==
    IF Len(b) = 0 THEN <<>>
    ELSE IF Len(b) = 1
    THEN <<b[1] \div 4, (b[1] % 4) * 16, Pad, Pad>>
    ELSE IF Len(b) = 2
    THEN <<b[1] \div 4, (b[1] % 4) * 16 + b[2] \div 16, (b[2] % 16) * 4, Pad>>
    ELSE <<b[1] \div 4, (b[1] % 4) * 16 + b[2] \div 16,
           (b[2] % 16) * 4 + b[3] \div 64, b[3] % 64>>
         \o Base64(SubSeq(b, 4, Len(b)))

RECURSIVE FromBase64(_)
FromBase64(s) ==
    LET c == SelectSeq(s, LAMBDA x : x # Pad)
    IN IF Len(c) < 2 THEN <<>>
       ELSE IF Len(c) = 2
       THEN <<c[1] * 4 + c[2] \div 16>>
       ELSE IF Len(c) = 3
       THEN <<c[1] * 4 + c[2] \div 16, (c[2] % 16) * 16 + c[3] \div 4>>
       ELSE <<c[1] * 4 + c[2] \div 16, (c[2] % 16) * 16 + c[3] \div 4,
              (c[3] % 4) * 64 + c[4]>>
            \o FromBase64(SubSeq(c, 5, Len(c)))

\* The string "data:" + mime + ";base64," + payload, as its two parts.
DataUri(mime, payload) == [mime |-> mime, payload |-> payload]

\* rawOut.match(/^data:(.+);base64,(.+)$/): both groups take one character
\* at least.
Matches(text) == text.mime # "" /\ Len(text.payload) >= 1

DataMimes == {"image/png", "image/svg+xml", "model/gltf-binary"}
PayloadBytes == {0, 65, 255}
MaxPayload == 3
Payloads == UNION {[1..n -> PayloadBytes] : n \in 0..MaxPayload}

IdleUri ==
    [pc |-> "idle", stage |-> "segment", mime |-> "", bytes |-> <<>>,
     text |-> DataUri("", <<>>), stored |-> NoBuf]

\* The remote stage answers with the data URI of the bytes.
Encode ==
    /\ uri.pc = "encode"
    /\ uri' = [uri EXCEPT !.pc = "normalize",
                          !.text = DataUri(uri.mime, Base64(uri.bytes))]
    /\ UNCHANGED <<main, poll, cls, gen, norm>>

\* The "data:" branch of either stage: the regexp and Buffer.from, or, when
\* the regexp does not match, fetch(rawOut), whose body is stored when the
\* answer is ok; a fetch that fails or throws stores nothing.
Normalize ==
    /\ uri.pc = "normalize"
    /\ \E fetch \in FetchOutcomes :
        uri' = [uri EXCEPT !.pc = "done",
                           !.stored = IF Matches(uri.text)
                                      THEN FromBase64(uri.text.payload)
                                      ELSE IF fetch = "ok"
                                      THEN FromBase64(uri.text.payload)
                                      ELSE NoBuf]
    /\ UNCHANGED <<main, poll, cls, gen, norm>>

\* ------------------- create.js: the seed and the payload of /process_3d
\* JavaScript values as far as the handler tells them apart: an integer up
\* to 2^31-1 in size, a larger integer, a number that is not an integer, NaN,
\* null.
Int32Max == 2147483647
Num(v) == [k |-> "int", v |-> v]
Big == [k |-> "big", v |-> 0]
Frac == [k |-> "frac", v |-> 0]
NaN == [k |-> "nan", v |-> 0]
JsNull == [k |-> "null", v |-> 0]

\* A field of the multipart body is a string, or is absent.
Absent == "absent"
SeedFields == {Absent, "", "42", "0", "-5", "abc", "1.5", "3000000000"}
FlagFields == {Absent, "true", "false"}
StepFields == {Absent, "30"}

\* Number(s) for the strings that occur.
ToNumber(s) ==
    CASE s = "" -> Num(0)
      [] s = "0" -> Num(0)
      [] s = "9" -> Num(9)
      [] s = "30" -> Num(30)
      [] s = "42" -> Num(42)
      [] s = "-5" -> Num(-5)
      [] s = "1.5" -> Frac
      [] s = "3000000000" -> Big
      [] OTHER -> NaN

\* !!v for a field of the body: a string is true unless it is empty.
Truthy(field) == field # Absent /\ field # ""

\* const providedSeed = seedRaw is given ? Number(seedRaw) : null
ProvidedSeed(seedRaw) ==
    IF seedRaw # Absent /\ seedRaw # "" THEN ToNumber(seedRaw) ELSE JsNull

\* seed: typeof providedSeed === "number" && !isNaN(providedSeed) ? providedSeed : 0
SeedArg(provided) == IF provided.k \in {"int", "big", "frac"} THEN provided ELSE Num(0)

\* What predict("/get_random_seed") comes to: it throws, it returns the seed
\* it was given, or it returns another value: a number, a string of digits,
\* something else.
SeedReplies == {"throws", "echo", "number", "negative", "large", "fraction",
                "digits", "other"}

SeedOut(reply, arg) ==
    CASE reply = "echo" -> arg
      [] reply = "number" -> Num(7)
      [] reply = "negative" -> Num(-1)
      [] reply = "large" -> Big
      [] reply = "fraction" -> Frac
      [] reply = "digits" -> ToNumber("9")
      [] OTHER -> JsNull

\* seedFor3d after the try/catch around /get_random_seed.
SeedFor3d(provided, reply) ==
    IF reply = "throws"
    THEN IF provided = JsNull THEN Num(0) ELSE provided
    ELSE IF reply # "other"
    THEN SeedOut(reply, SeedArg(provided))
    ELSE IF provided = JsNull THEN Num(0) ELSE provided

\* Number(req.body.x ?? x), x defaulted in the destructuring.
NumberOr(field, default) ==
    IF field = Absent THEN Num(default) ELSE ToNumber(field)

\* typeof req.body.simplify_mesh !== "undefined"
\*     ? req.body.simplify_mesh === "false" || req.body.simplify_mesh === false
\*     : simplify_mesh
SimplifyMesh(field) == IF field # Absent THEN field = "false" ELSE FALSE

Defaults ==
    [num_steps |-> 50, cfg_scale |-> 7, grid_res |-> 384, target_num_faces |-> 100000]

NoPayload ==
    [seed |-> JsNull, num_steps |-> JsNull, cfg_scale |-> JsNull, grid_res |-> JsNull,
     target_num_faces |-> JsNull, simplify_mesh |-> FALSE]

\* const payload = { ... }
Payload(body, seedFor3d) ==
    [seed |-> IF seedFor3d = JsNull THEN Num(0) ELSE seedFor3d,
     num_steps |-> NumberOr(body.num_steps, Defaults.num_steps),
     cfg_scale |-> NumberOr(body.cfg_scale, Defaults.cfg_scale),
     grid_res |-> NumberOr(body.grid_res, Defaults.grid_res),
     target_num_faces |-> NumberOr(body.target_num_faces, Defaults.target_num_faces),
     simplify_mesh |-> SimplifyMesh(body.simplify_mesh)]

Bodies ==
    [seed : SeedFields, randomize_seed : FlagFields, simplify_mesh : FlagFields,
     num_steps : StepFields, cfg_scale : {Absent, "9"}, grid_res : {Absent},
     target_num_faces : {Absent, "30"}]

IdleGen ==
    [pc |-> "idle",
     body |-> [seed |-> Absent, randomize_seed |-> Absent, simplify_mesh |-> Absent,
               num_steps |-> Absent, cfg_scale |-> Absent, grid_res |-> Absent,
               target_num_faces |-> Absent],
     seedCalls |-> 0, randomizeSent |-> FALSE, reply |-> "none",
     seedFor3d |-> JsNull, payload |-> NoPayload]

\* The try/catch around predict("/get_random_seed").
ResolveSeed ==
    /\ gen.pc = "seed"
    /\ \E reply \in SeedReplies :
        gen' = [gen EXCEPT !.pc = "payload",
                           !.seedCalls = @ + 1,
                           !.randomizeSent = Truthy(gen.body.randomize_seed),
                           !.reply = reply,
                           !.seedFor3d = SeedFor3d(ProvidedSeed(gen.body.seed), reply)]
    /\ UNCHANGED <<main, poll, cls, uri, norm>>

\* The payload handed to predict("/process_3d").
BuildPayload ==
    /\ gen.pc = "payload"
    /\ gen' = [gen EXCEPT !.pc = "done", !.payload = Payload(gen.body, gen.seedFor3d)]
    /\ UNCHANGED <<main, poll, cls, uri, norm>>

\* ------------------------- create.js: the normalisation of a stage's output
IdleNorm ==
    [pc |-> "idle", stage |-> "segment", shape |-> "nullish", fetch |-> "ok",
     stored |-> "none", linked |-> FALSE, threw |-> FALSE]

\* What a stage makes of an output: the file it stores (the artifact, a
\* diagnostic, none), whether the stage's locator (segmentedImageUrl, glbUrl)
\* is set to it, whether the normalisation threw.
Normalized(stage, shape, fetch) ==
    IF Throws(shape)
    THEN [stored |-> "none", linked |-> FALSE, threw |-> TRUE]
    ELSE IF stage = "segment"
    THEN IF ~SegSaves(shape, fetch)
         THEN [stored |-> "none", linked |-> FALSE, threw |-> FALSE]
         ELSE [stored |-> IF SegDiag(shape) THEN "diagnostic" ELSE "artifact",
               linked |-> TRUE, threw |-> FALSE]
    ELSE IF MeshSaves(shape, fetch)
    THEN [stored |-> "artifact", linked |-> TRUE, threw |-> FALSE]
    ELSE IF MeshDiag(shape)
    THEN [stored |-> "diagnostic", linked |-> FALSE, threw |-> FALSE]
    ELSE [stored |-> "none", linked |-> FALSE, threw |-> FALSE]

NormalizeOutput ==
    /\ norm.pc = "call"
    /\ LET res == Normalized(norm.stage, norm.shape, norm.fetch)
       IN norm' = [norm EXCEPT !.pc = "done", !.stored = res.stored,
                               !.linked = res.linked, !.threw = res.threw]
    /\ UNCHANGED <<main, poll, cls, uri, gen>>

\* ---------------------------------------------------------- specification
\* The ids a request to the asset routes names: the ids of the two generation
\* requests and of the upload-image assets created so far.
Targets == {a \in AssetIds : a <= 2 + nOps}

Init ==
    /\ db = [u \in Users |-> [v |-> 0, assets |-> <<>>]]
    /\ files = <<>>
    /\ req = [r \in Reqs |-> IdleReq]
    /\ sent = [r \in Reqs |-> <<>>]
    /\ op = IdleOp
    /\ out = NoOut
    /\ nOps = 0
    /\ deleted = {}
    /\ poll = IdlePoll
    /\ cls = IdleCls
    /\ uri = IdleUri
    /\ gen = IdleGen
    /\ norm = IdleNorm

Upload(r) ==
    \/ UploadStart(r)
    \/ UploadCreate(r)
    \/ UploadSegment(r)
    \/ UploadSegFind(r)
    \/ UploadSegSave(r)
    \/ UploadReply(r)
    \/ UploadSeed(r)
    \/ UploadMesh(r)
    \/ UploadAbortFind(r)
    \/ UploadAbortSave(r)
    \/ UploadGlbFind(r)
    \/ UploadGlbSave(r)

Next ==
    \/ \E r \in {1} : Upload(r)
    \/ \E u \in Users, a \in Targets : GetAsset(u, a)
    \/ \E u \in Users, a \in Targets : DeleteBegin(u, a)
    \/ DeleteFinish
    \/ \E u \in Users, a \in Targets : AttachBegin(u, a)
    \/ AttachFinish
    \/ \E u \in Users : DirectBegin(u)
    \/ DirectFinish

Spec == Init /\ [][Next]_vars

\* Two generation requests of the same user, interleaved in every way.
NextPair == \E r \in Reqs : Upload(r)

SpecPair == Init /\ [][NextPair]_vars

\* An upload and deletions of its asset, with every await of the upload
\* handler eventually settling: a step of the handler that can be taken is
\* eventually taken.
NextLive ==
    \/ \E r \in {1} : Upload(r)
    \/ \E u \in {Uploader}, a \in {1} : DeleteBegin(u, a)
    \/ DeleteFinish

SpecLive == Init /\ [][NextLive]_vars /\ WF_vars(Upload(1))

\* pollForAsset, called with every combination of arguments.
InitPoll ==
    /\ Init!1 /\ Init!2 /\ Init!3 /\ Init!4 /\ Init!5 /\ Init!6 /\ Init!7 /\ Init!8
    /\ poll \in PollCalls
    /\ cls = IdleCls
    /\ uri = IdleUri
    /\ gen = IdleGen
    /\ norm = IdleNorm

NextPoll == PollEnter \/ PollFetch \/ PollSleep

SpecPoll == InitPoll /\ [][NextPoll]_vars

\* detectMimeFromBuffer, called with every buffer of Buffers.
InitClassify ==
    /\ Init!1 /\ Init!2 /\ Init!3 /\ Init!4 /\ Init!5 /\ Init!6 /\ Init!7 /\ Init!8
    /\ poll = IdlePoll
    /\ cls \in {[IdleCls EXCEPT !.pc = "call", !.buf = b] : b \in Buffers}
    /\ uri = IdleUri
    /\ gen = IdleGen
    /\ norm = IdleNorm

NextClassify == Classify

SpecClassify == InitClassify /\ [][NextClassify]_vars

\* A data URI made from every byte sequence of Payloads, given to either
\* stage's normalisation.
InitCodec ==
    /\ Init!1 /\ Init!2 /\ Init!3 /\ Init!4 /\ Init!5 /\ Init!6 /\ Init!7 /\ Init!8
    /\ poll = IdlePoll
    /\ cls = IdleCls
    /\ uri \in {[IdleUri EXCEPT !.pc = "encode", !.stage = st, !.mime = m, !.bytes = b] :
                   st \in {"segment", "mesh"}, m \in DataMimes, b \in Payloads}
    /\ gen = IdleGen
    /\ norm = IdleNorm

NextCodec == Encode \/ Normalize

SpecCodec == InitCodec /\ [][NextCodec]_vars

\* The seed and the payload, for every request body of Bodies.
InitPayload ==
    /\ Init!1 /\ Init!2 /\ Init!3 /\ Init!4 /\ Init!5 /\ Init!6 /\ Init!7 /\ Init!8
    /\ poll = IdlePoll
    /\ cls = IdleCls
    /\ uri = IdleUri
    /\ gen \in {[IdleGen EXCEPT !.pc = "seed", !.body = b] : b \in Bodies}
    /\ norm = IdleNorm

NextPayload == ResolveSeed \/ BuildPayload

SpecPayload == InitPayload /\ [][NextPayload]_vars

\* The normalisation of either stage, for every shape of output.
InitNormalize ==
    /\ Init!1 /\ Init!2 /\ Init!3 /\ Init!4 /\ Init!5 /\ Init!6 /\ Init!7 /\ Init!8
    /\ poll = IdlePoll
    /\ cls = IdleCls
    /\ uri = IdleUri
    /\ gen = IdleGen
    /\ norm \in {[IdleNorm EXCEPT !.pc = "call", !.stage = st, !.shape = sh, !.fetch = f] :
                    st \in {"segment", "mesh"}, sh \in Shapes, f \in FetchOutcomes}

NextNormalize == NormalizeOutput

SpecNormalize == InitNormalize /\ [][NextNormalize]_vars

\* ------------------------------------------------------------- properties
\* C1: every stored asset record has a non-null glbUrl exactly when its
\* status is "ready".
GlbIffReady ==
    \A u \in Users : \A i \in DOMAIN db[u].assets :
        (db[u].assets[i].glbUrl # Null) <=> (db[u].assets[i].status = "ready")

\* A collection holding an asset the pipeline made ready and a pending one.
GlbIffReadyWitness ==
    \E u \in Users : \E i, j \in DOMAIN db[u].assets :
        /\ db[u].assets[i].glbUrl = GlbUrl(1)
        /\ db[u].assets[i].status = "ready"
        /\ db[u].assets[j].glbUrl = Null
        /\ db[u].assets[j].status = "pending"

\* C2: a create/upload request is answered exactly once on every path: no
\* response before the handler's res.json or early return, one response from
\* then on, whatever Phase 2 does.
OneResponse ==
    \A r \in Reqs : Len(sent[r]) = IF req[r].pc \in Phase1 THEN 0 ELSE 1

\* A request answered 200 whose Phase 2 ran to the end and stored a mesh.
OneResponseWitness ==
    /\ req[1].pc = "done"
    /\ req[1].glbUrl = GlbUrl(1)
    /\ sent[1] = <<Response(200, 1, req[1].segUrl)>>

\* C3: when the segmentation stage throws, the request is still answered 200
\* with the asset id and a null segmentedImageUrl, the record never gets a
\* meta.segmentedImage, and until Phase 2 stores a mesh the record keeps
\* status "pending" and glbUrl null (attach-glb aside, which links a file of
\* its own).
SegFailStillSucceeds ==
    \A r \in Reqs :
        (req[r].segHow = "throws" /\ req[r].pc \notin Phase1) =>
            /\ sent[r] = <<Response(200, r, Null)>>
            /\ req[r].segUrl = Null
            /\ HasAsset(req[r].uid, r) =>
                LET a == AssetOf(req[r].uid, r)
                IN /\ a.meta.segmentedImage = Null
                   /\ req[r].glbUrl = Null =>
                        \/ a.status = "pending" /\ a.glbUrl = Null
                        \/ a.status = "ready" /\ a.glbUrl.tag \in {"ext", "attached"}

\* The reply has just been sent after a failed segmentation; the record is as
\* it was created.
SegFailWitness ==
    /\ req[1].segHow = "throws"
    /\ req[1].pc = "seed"
    /\ sent[1] = <<Response(200, 1, Null)>>
    /\ HasAsset(Uploader, 1)
    /\ AssetOf(Uploader, 1) = NewAsset(1)

\* C4: when the reply carries a non-null segmentedImageUrl, the record (if it
\* still exists) has that URL in meta.segmentedImage at the moment the reply
\* is sent.
ReplyMatchesRecord ==
    [][\A r \in Reqs :
        (/\ req[r].pc = "reply"
         /\ req'[r].pc = "seed"
         /\ sent'[r][1].segmentedImageUrl # Null
         /\ IndexOf(db'[req[r].uid].assets, r) # 0)
        => db'[req[r].uid].assets[IndexOf(db'[req[r].uid].assets, r)].meta.segmentedImage
               = sent'[r][1].segmentedImageUrl]_vars

MeshFieldsReturned ==
    (out.kind = "get" /\ out.code = 200 /\ out.asset.glbUrl.tag = "generated") =>
        /\ out.asset.status = "ready"
        /\ {"updatedAt", "generatedAt"} \subseteq DOMAIN out.asset

\* C7: a step of Phase 2 of a task that has produced no mesh writes nothing to
\* the collection, and a record links the mesh of a task only when that task
\* produced it.
NoMeshNoWrite ==
    [][\A r \in Reqs :
        /\ (req'[r] # req[r] /\ req[r].pc \in Phase2 /\ req'[r].glbUrl = Null)
              => db' = db
        /\ \A u \in Users : \A j \in DOMAIN db'[u].assets :
              db'[u].assets[j].glbUrl = GlbUrl(r) => req'[r].glbUrl = GlbUrl(r)]_vars

\* Phase 2 ended with a diagnostic instead of a mesh; the record is pending.
NoMeshWitness ==
    /\ req[1].pc = "done"
    /\ req[1].glbUrl = Null
    /\ DiagUrl(1) \in DOMAIN files
    /\ HasAsset(Uploader, 1)
    /\ AssetOf(Uploader, 1).status = "pending"
    /\ AssetOf(Uploader, 1).glbUrl = Null

\* C8: a successful delete removes the record and every stored artifact of the
\* asset it loaded: the input image, the segmented image and the mesh.
DeleteRemovesAll ==
    [][(op.kind = "delete" /\ out'.kind = "delete" /\ out'.code = 200) =>
        LET asset == op.snap[1]
        IN /\ IndexOf(db'[op.uid].assets, op.aid) = 0
           /\ \A f \in {asset.imageUrl, asset.meta.segmentedImage, asset.glbUrl} :
                 f \notin DOMAIN files']_vars

\* C9: an asset that was deleted is in no collection, and a further delete of
\* it is answered not-found, not an error, and changes neither the
\* collections nor the stored files.
SecondDelete ==
    [][\A a \in deleted :
        /\ \A u \in Users : IndexOf(db[u].assets, a) = 0
        /\ (~InFlight /\ out'.kind = "delete" /\ out'.aid = a) =>
              (out'.code = 404 /\ db' = db /\ files' = files /\ op' = op)]_vars

\* The second delete of an asset has just been answered not-found.
SecondDeleteWitness ==
    /\ out.kind = "delete"
    /\ out.code = 404
    /\ out.aid \in deleted

\* C10: get, delete and attach-glb on an id that is another user's asset are
\* answered not-found and leave the collections and the stored files of the
\* assets alone; a step changes only the collection of the user whose request
\* it belongs to, and unlinks only files that user's assets link.
NoCrossUser ==
    [][/\ \A u \in Users, a \in AssetIds :
            (/\ ~InFlight
             /\ out'.kind \in {"get", "delete", "attach"}
             /\ out'.uid = u /\ out'.aid = a
             /\ IndexOf(db[u].assets, a) = 0
             /\ \E w \in Users : IndexOf(db[w].assets, a) # 0)
            => /\ out'.code = 404
               /\ db' = db
               /\ op' = op
               /\ \A f \in DOMAIN files : f \in DOMAIN files' /\ files'[f] = files[f]
       /\ \A w \in Users : db'[w] # db[w] =>
            \/ op.uid = w
            \/ \E r \in Reqs : req'[r] # req[r] /\ req[r].uid = w
       /\ \A f \in DOMAIN files : f \notin DOMAIN files' =>
            /\ op'.kind = "delete"
            /\ \E i \in DOMAIN db[op'.uid].assets :
                  f \in {db[op'.uid].assets[i].imageUrl, db[op'.uid].assets[i].glbUrl}]_vars

\* A delete by one user of an asset in the other's collection has just been
\* answered not-found.
NoCrossUserWitness ==
    /\ out.kind = "delete"
    /\ out.code = 404
    /\ \E w \in Users : w # out.uid /\ IndexOf(db[w].assets, out.aid) # 0

HeaderAnomalyLinked ==
    [][\A r \in Reqs :
        /\ req'[r].meshKind = "other" =>
            /\ req'[r].warned
            /\ req'[r].glbUrl = GlbUrl(r)
            /\ req'[r].pc \in {"glbFind", "glbSave", "done"}
            /\ sent'[r] = <<Response(200, r, req'[r].segUrl)>>
        /\ (req[r].pc = "mesh" /\ req'[r].meshKind = "other") =>
            /\ GlbUrl(r) \in DOMAIN files'
            /\ files'[GlbUrl(r)] = "other"
        /\ (req[r].pc = "glbSave" /\ req[r].meshKind = "other"
                /\ req'[r] # req[r] /\ db' # db) =>
            \E i \in DOMAIN db'[req[r].uid].assets :
                /\ db'[req[r].uid].assets[i]._id = r
                /\ db'[req[r].uid].assets[i].glbUrl = GlbUrl(r)
                /\ db'[req[r].uid].assets[i].status = "ready"]_vars

\* The task is over, the stored mesh has no signature, and the record links it.
HeaderAnomalyWitness ==
    /\ req[1].pc = "done"
    /\ req[1].meshKind = "other"
    /\ req[1].warned
    /\ GlbUrl(1) \in DOMAIN files
    /\ files[GlbUrl(1)] = "other"
    /\ HasAsset(Uploader, 1)
    /\ AssetOf(Uploader, 1).glbUrl = GlbUrl(1)
    /\ AssetOf(Uploader, 1).status = "ready"

\* C18: once the asset of a request was deleted, no step of its Phase 2 writes
\* to any collection, puts the record back or sends anything.
DeletedStaysDeleted ==
    [][\A r \in Reqs :
        (r \in deleted /\ req[r].pc \in Phase2 /\ req'[r] # req[r]) =>
            /\ db' = db
            /\ sent' = sent
            /\ \A u \in Users : \A i \in DOMAIN db'[u].assets :
                  db'[u].assets[i]._id # r]_vars

\* Phase 2 stored a mesh and ran its record update to the end on an asset
\* that was deleted before: the mesh file is left, the record is not.
DeletedStaysDeletedWitness ==
    /\ 1 \in deleted
    /\ req[1].pc = "done"
    /\ req[1].glbUrl = GlbUrl(1)
    /\ GlbUrl(1) \in DOMAIN files
    /\ ~HasAsset(Uploader, 1)

\* C20: the record is created pending before the segmentation stage runs; the
\* reply is sent only once the segmentation stage has returned or failed and
\* before any step of Phase 2; the mesh stage runs only once the seed stage
\* has returned or failed; no step of Phase 2 sends or changes a response.
StepsInOrder ==
    [][\A r \in Reqs : req'[r] # req[r] =>
        /\ (req[r].pc = "create" /\ req'[r].pc # "done") =>
            /\ req'[r].segHow = "none"
            /\ \E i \in DOMAIN db'[req'[r].uid].assets :
                  db'[req'[r].uid].assets[i] = NewAsset(r)
        /\ (req[r].segHow = "none" /\ req'[r].segHow # "none") =>
            /\ req[r].idx # 0
            /\ sent[r] = <<>>
        /\ (sent'[r] # sent[r] /\ sent'[r][1].code = 200) =>
            /\ req[r].segHow # "none"
            /\ req[r].seedHow = "none"
            /\ req[r].meshKind = "none"
        /\ (req[r].seedHow = "none" /\ req'[r].seedHow # "none") =>
            /\ sent[r] # <<>>
            /\ req[r].meshKind = "none"
        /\ req[r].pc = "mesh" => req[r].seedHow # "none"
        /\ req[r].pc \in Phase2 => (sent[r] # <<>> /\ sent'[r] = sent[r])]_vars

\* A request that went through every stage: segmented, answered, seeded,
\* meshed.
StepsInOrderWitness ==
    /\ req[1].pc = "done"
    /\ req[1].segHow = "stored"
    /\ req[1].seedHow = "returned"
    /\ req[1].meshKind = "glb"
    /\ sent[1] = <<Response(200, 1, SegUrl(1))>>

\* The fetched record satisfies what the call asked for.
Wanted(ans) ==
    /\ ans.kind = "ok"
    /\ poll.needSegmented => ans.seg # Null
    /\ poll.needGlb => ans.glb # Null

AuthRefused(ans) == ans.kind = "status" /\ ans.code \in {401, 403}

\* C11: a call of pollForAsset with an asset id and a budget of N attempts,
\* none of whose fetches is answered 401 or 403 and none of whose fetched
\* records satisfies the predicate, ends after exactly N fetches with null,
\* for every N from 0 on, whether the fetches are answered with the record,
\* with another error status or with an exception; and no call ever makes
\* more than N fetches.
PollExhaustsBudget ==
    /\ Len(poll.log) <= poll.maxAttempts
    /\ ( /\ poll.pc = "done"
         /\ poll.assetId
         /\ \A i \in DOMAIN poll.log : ~AuthRefused(poll.log[i]) /\ ~Wanted(poll.log[i]) )
       => /\ Len(poll.log) = poll.maxAttempts
          /\ poll.result = NullResult

PollExhaustsWitness ==
    /\ poll.pc = "done"
    /\ poll.assetId
    /\ poll.needSegmented
    /\ poll.maxAttempts = 3
    /\ Len(poll.log) = 3
    /\ poll.log[1].kind = "throws"
    /\ poll.log[2].code = 500
    /\ poll.log[3].kind = "ok" /\ poll.log[3].seg = Null
    /\ poll.result = NullResult

\* C12: a fetch answered 401 or 403 is the last fetch of the call, which
\* returns null at that attempt.
AuthStopsPolling ==
    \A i \in DOMAIN poll.log :
        AuthRefused(poll.log[i]) =>
            /\ i = Len(poll.log)
            /\ poll.pc = "done"
            /\ poll.result = NullResult

AuthStopsWitness ==
    /\ poll.pc = "done"
    /\ poll.maxAttempts = 3
    /\ Len(poll.log) = 2
    /\ poll.log[1].kind = "ok"
    /\ poll.log[2].code = 403
    /\ poll.result = NullResult

\* C13: the call returns a record exactly at the first attempt whose fetched
\* record satisfies the predicate (both fields for (true, true), the
\* segmented image for (true, false), the mesh URL for (false, true)): the
\* returned record is the one fetched last and satisfies the predicate, and
\* no fetch follows a record that satisfies it.
ReturnsFirstMatch ==
    /\ \A i \in DOMAIN poll.log :
          Wanted(poll.log[i]) =>
              /\ i = Len(poll.log)
              /\ poll.pc = "done"
              /\ poll.result = Found(poll.log[i].seg, poll.log[i].glb)
    /\ (poll.pc = "done" /\ ~poll.result.isNull) =>
          /\ poll.log # <<>>
          /\ Wanted(poll.log[Len(poll.log)])
          /\ poll.needSegmented => poll.result.segmented # Null
          /\ poll.needGlb => poll.result.glb # Null

ReturnsFirstMatchWitness ==
    /\ poll.pc = "done"
    /\ poll.needSegmented /\ poll.needGlb
    /\ poll.maxAttempts = 3
    /\ Len(poll.log) = 2
    /\ poll.log[1].kind = "ok" /\ poll.log[1].seg # Null /\ poll.log[1].glb = Null
    /\ poll.result = Found(SegUrl(1), GlbUrl(1))

\* C15: detectMimeFromBuffer looks at the leading bytes only.  For a buffer of
\* 12 bytes or more the answer is png exactly when it begins 89 50 4E 47,
\* otherwise jpeg exactly when it begins FF D8, otherwise webp exactly when it
\* begins "RIFF" and bytes 8..11 are "WEBP", otherwise glb exactly when it
\* begins "glTF", otherwise unknown; a shorter or missing buffer is unknown.
ClassifiedBySignature ==
    cls.pc = "done" =>
        LET b == cls.buf
            long == b # NoBuf /\ Len(b) >= 12
            png == long /\ SubSeq(b, 1, 4) = <<137, 80, 78, 71>>
            jpeg == long /\ SubSeq(b, 1, 2) = <<255, 216>>
            webp == long /\ SubSeq(b, 1, 4) = Riff /\ SubSeq(b, 9, 12) = Webp
            glb == long /\ SubSeq(b, 1, 4) = Gltf
        IN /\ (cls.kind = "png") = png
           /\ (cls.kind = "jpeg") = jpeg
           /\ (cls.kind = "webp") = webp
           /\ (cls.kind = "glb") = glb
           /\ (cls.kind = "unknown") = ~(png \/ jpeg \/ webp \/ glb)
           /\ long =>
                 \A c \in Buffers :
                     (c # NoBuf /\ Len(c) >= 12 /\ SubSeq(c, 1, 12) = SubSeq(b, 1, 12))
                         => DetectMimeFromBuffer(c) = cls.kind

ClassifiedWitness ==
    /\ cls.pc = "done"
    /\ Len(cls.buf) = 13
    /\ SubSeq(cls.buf, 1, 4) = Riff
    /\ cls.kind = "webp"

\* A signature in a buffer shorter than 12 bytes is not recognised.
ClassifiedShortWitness ==
    /\ cls.pc = "done"
    /\ cls.buf # NoBuf
    /\ Len(cls.buf) = 11
    /\ SubSeq(cls.buf, 1, 4) = Gltf
    /\ cls.kind = "unknown"

\* C16: for every byte sequence b, the empty one included, the normalisation
\* of "data:<mime>;base64,<base64(b)>" stores bytes identical to b, in the
\* segmentation stage and in the mesh stage.
DataUriRoundTrip == uri.pc = "done" => uri.stored = uri.bytes

\* The same for the sequences of one byte or more.
DataUriRoundTripNonEmpty ==
    (uri.pc = "done" /\ uri.bytes # <<>>) => uri.stored = uri.bytes

SeedAsSpecified ==
    gen.pc = "done" =>
        LET supplied == gen.body.seed \notin {Absent, ""}
            randomize == gen.body.randomize_seed = "true"
        IN IF supplied /\ ~randomize
           THEN /\ gen.seedCalls = 0
                /\ gen.payload.seed = ToNumber(gen.body.seed)
           ELSE IF gen.reply = "throws"
           THEN gen.payload.seed = IF supplied THEN ToNumber(gen.body.seed) ELSE Num(0)
           ELSE gen.reply # "other" =>
                   gen.payload.seed = SeedOut(gen.reply, SeedArg(ProvidedSeed(gen.body.seed)))

\* The part of C21 the code keeps: the fallback when /get_random_seed fails.
SeedFallback ==
    (gen.pc = "done" /\ gen.reply = "throws") =>
        gen.payload.seed = IF gen.body.seed \notin {Absent, ""}
                           THEN ToNumber(gen.body.seed) ELSE Num(0)

\* C22: the seed of every mesh-generation call is an integer in 0 .. 2^31-1,
\* whatever the caller's seed field and whatever /get_random_seed returns.
SeedInRange ==
    gen.pc = "done" =>
        /\ gen.payload.seed.k = "int"
        /\ gen.payload.seed.v >= 0
        /\ gen.payload.seed.v <= Int32Max

\* C27: the mesh-generation call gets the caller's num_steps, cfg_scale,
\* grid_res, target_num_faces and simplify_mesh, or the defaults 50, 7, 384,
\* 100000 and false for those the caller left out; simplify_mesh "true" is
\* forwarded as true and "false" as false.
ParametersForwarded ==
    gen.pc = "done" =>
        LET given(field, default) ==
                IF gen.body[field] = Absent THEN Num(default) ELSE ToNumber(gen.body[field])
        IN /\ gen.payload.num_steps = given("num_steps", 50)
           /\ gen.payload.cfg_scale = given("cfg_scale", 7)
           /\ gen.payload.grid_res = given("grid_res", 384)
           /\ gen.payload.target_num_faces = given("target_num_faces", 100000)
           /\ gen.payload.simplify_mesh = (gen.body.simplify_mesh = "true")

\* The numeric parameters alone are forwarded as C27 says.
NumbersForwarded ==
    gen.pc = "done" =>
        /\ gen.body.num_steps = "30" => gen.payload.num_steps = Num(30)
        /\ gen.body.num_steps = Absent => gen.payload.num_steps = Num(50)
        /\ gen.body.cfg_scale = Absent => gen.payload.cfg_scale = Num(7)
        /\ gen.body.grid_res = Absent => gen.payload.grid_res = Num(384)
        /\ gen.body.target_num_faces = Absent => gen.payload.target_num_faces = Num(100000)

\* C26: in either stage an output that is no data URI, absolute URL, bare
\* base64 or reference with an absolute URL (an unrecognised string, a
\* buffer, an object without an absolute URL string, null) has a diagnostic
\* stored, and does not make the normalisation throw.
UnrecognisedShapes == {"string", "buffer", "objPath", "objOther", "objNumber", "nullish"}

DiagnosticAlwaysStored ==
    (norm.pc = "done" /\ norm.shape \in UnrecognisedShapes) =>
        /\ IF norm.shape = "buffer"
           THEN norm.stored # "none"
           ELSE norm.stored = "diagnostic"
        /\ ~norm.threw

\* What holds of C26: the segmentation stage stores a diagnostic for an
\* unrecognised string, an object without an absolute URL and null; the mesh
\* stage for an object without an absolute URL.
DiagnosticSometimesStored ==
    (norm.pc = "done" /\ ~norm.threw) =>
        /\ (norm.stage = "segment" /\ norm.shape \in {"string", "objPath", "objOther", "nullish"})
              => norm.stored = "diagnostic"
        /\ (norm.stage = "mesh" /\ norm.shape \in {"objPath", "objOther"})
              => norm.stored = "diagnostic"

\* The kinds the format sniffer takes for an image.
ImageKinds == {"png", "jpeg", "webp"}

\* The segmented image of request r is stored, its file exists and its bytes
\* are an image; the original upload exists and its bytes are an image.
SegmentedIsImage(r) ==
    /\ req[r].segUrl # Null
    /\ req[r].segUrl \in DOMAIN files
    /\ files[req[r].segUrl] \in ImageKinds

OriginalIsImage(r) ==
    /\ InUrl(r) \in DOMAIN files
    /\ files[InUrl(r)] \in ImageKinds

\* C23: the image sent to mesh generation is the stored segmented image when
\* there is one and its bytes are classified as an image; in every other
\* case (none stored, file missing, diagnostic or other bytes) it is the
\* original upload, and then the original is classified as an image.
SourceImage ==
    [][\A r \in Reqs :
          (req[r].pc = "mesh" /\ req'[r] # req[r] /\ req'[r].src # "none") =>
              IF SegmentedIsImage(r)
              THEN req'[r].src = "segmented"
              ELSE req'[r].src = "original" /\ OriginalIsImage(r)]_vars

\* Segmentation left a diagnostic; the mesh was generated from the original.
SourceImageWitness ==
    /\ req[1].pc = "done"
    /\ req[1].segHow = "diag"
    /\ SegUrl(1) \in DOMAIN files
    /\ files[SegUrl(1)] = "other"
    /\ req[1].src = "original"
    /\ req[1].glbUrl = GlbUrl(1)

\* The segmented image is preferred when it is an image.
SourceSegmentedWitness ==
    /\ req[1].pc = "done"
    /\ req[1].segHow = "stored"
    /\ req[1].src = "segmented"
    /\ req[1].glbUrl = GlbUrl(1)

\* C24: when neither the segmented image nor the original upload is
\* classified as an image, Phase 2 sends nothing to mesh generation, stores
\* no file, and the steps of its abort path leave the collections, the files
\* and the response as they were.
AbortLeavesRecord ==
    [][\A r \in Reqs :
          /\ ( /\ req[r].pc = "mesh"
               /\ req'[r] # req[r]
               /\ ~SegmentedIsImage(r)
               /\ ~OriginalIsImage(r) )
             => /\ req'[r].src = "none"
                /\ req'[r].glbUrl = Null
                /\ req'[r].pc \in {"abortFind", "done"}
                /\ files' = files
                /\ db' = db
                /\ sent' = sent
          /\ (req[r].pc \in {"abortFind", "abortSave"} /\ req'[r] # req[r])
             => /\ req'[r].pc \in {"abortSave", "done"}
                /\ files' = files
                /\ db' = db
                /\ sent' = sent]_vars

\* The abort path has run on a record that exists: it is as Phase 1 left it.
AbortWitness ==
    /\ req[1].pc = "done"
    /\ req[1].seedHow # "none"
    /\ req[1].segHow = "diag"
    /\ {InUrl(1), SegUrl(1)} \subseteq DOMAIN files
    /\ files[InUrl(1)] = "other"
    /\ files[SegUrl(1)] = "other"
    /\ req[1].src = "none"
    /\ GlbUrl(1) \notin DOMAIN files
    /\ HasAsset(Uploader, 1)
    /\ AssetOf(Uploader, 1).status = "pending"
    /\ AssetOf(Uploader, 1).glbUrl = Null
    /\ AssetOf(Uploader, 1).meta.segmentedImage = SegUrl(1)

\* C25: a stage output that cannot be resolved to artifact bytes gives "no
\* artifact": the diagnostic stored for it is never linked, so the reply's
\* segmentedImageUrl is null, meta.segmentedImage is not the diagnostic and
\* glbUrl is not set to a diagnostic.
DiagnosticNeverLinked ==
    \A r \in Reqs :
        /\ req[r].segHow = "diag" =>
              /\ req[r].segUrl = Null
              /\ sent[r] # <<>> => sent[r][1].segmentedImageUrl = Null
              /\ \A u \in Users : \A i \in DOMAIN db[u].assets :
                    db[u].assets[i].meta.segmentedImage # SegUrl(r)
        /\ \A u \in Users : \A i \in DOMAIN db[u].assets :
              db[u].assets[i].glbUrl # DiagUrl(r)

\* The part of C25 about the mesh stage: its diagnostic is never linked.
MeshDiagnosticNeverLinked ==
    \A r \in Reqs :
        DiagUrl(r) \in DOMAIN files =>
            /\ req[r].glbUrl = Null
            /\ \A u \in Users : \A i \in DOMAIN db[u].assets :
                  db[u].assets[i].glbUrl \notin {DiagUrl(r), GlbUrl(r)}

\* C28: the status of every stored record is "pending" or "ready"; no
\* operation stores "failed" or "processing".
StatusPendingOrReady ==
    \A u \in Users : \A i \in DOMAIN db[u].assets :
        db[u].assets[i].status \in {"pending", "ready"}

\* The abort path of Phase 2 has run on a pending record, beside a record
\* made by upload-image.
StatusWitness ==
    /\ req[1].pc = "done"
    /\ req[1].seedHow # "none"
    /\ req[1].src = "none"
    /\ InUrl(1) \in DOMAIN files
    /\ files[InUrl(1)] = "other"
    /\ HasAsset(Uploader, 1)
    /\ AssetOf(Uploader, 1).status = "pending"
    /\ \E a \in DirectIds : HasAsset(Uploader, a)

\* How far a request has got, in the order of the handler's text.
Rank(pc) ==
    CASE pc = "idle" -> 0
      [] pc = "create" -> 1
      [] pc = "segment" -> 2
      [] pc = "segFind" -> 3
      [] pc = "segSave" -> 4
      [] pc = "reply" -> 5
      [] pc = "seed" -> 6
      [] pc = "mesh" -> 7
      [] pc \in {"abortFind", "glbFind"} -> 8
      [] pc \in {"abortSave", "glbSave"} -> 9
      [] pc = "done" -> 10

\* C30: every step of an upload takes it further down the handler, so the
\* segmentation call, the seed call, the mesh call, the mesh update of the
\* record and the start of Phase 2 happen at most once each, whatever fails;
\* and the record is given the mesh at most once.
NoRetry ==
    [][\A r \in Reqs :
          /\ req'[r] # req[r] => Rank(req'[r].pc) > Rank(req[r].pc)
          /\ \A u \in Users : \A i \in DOMAIN db[u].assets :
                (db[u].assets[i].glbUrl = GlbUrl(r) /\ i \in DOMAIN db'[u].assets
                    /\ db'[u].assets[i]._id = db[u].assets[i]._id)
                => db'[u].assets[i].glbUrl # Null]_vars

\* Segmentation, the seed call and the mesh call all failed; the task ended.
NoRetryWitness ==
    /\ req[1].pc = "done"
    /\ req[1].segHow = "throws"
    /\ req[1].seedHow = "failed"
    /\ req[1].src = "original"
    /\ req[1].glbUrl = Null
    /\ Len(sent[1]) = 1
    /\ sent[1][1].code = 200

\* C29: with every remote call, fetch and record read or write eventually
\* returning or failing, an accepted upload is eventually answered and its
\* Phase 2 task eventually ends, whatever fails and whatever the asset routes
\* do meanwhile; the task then has made the record ready with its mesh or has
\* written nothing in Phase 2.
UploadCompletes ==
    /\ (req[1].pc = "create") ~> (Len(sent[1]) = 1)
    /\ (req[1].pc \in Phase2) ~> (req[1].pc = "done")
    /\ [][(req[1].pc \in Phase2 /\ req'[1].pc = "done") =>
            \/ db' = db
            \/ /\ HasAsset(req[1].uid, 1)'
               /\ AssetOf(req[1].uid, 1)'.status = "ready"
               /\ AssetOf(req[1].uid, 1)'.glbUrl = GlbUrl(1)]_vars

\* Phase 2 ran to its end although the asset was deleted while it ran.
UploadCompletesWitness ==
    /\ req[1].pc = "done"
    /\ req[1].seedHow = "failed"
    /\ req[1].glbUrl = GlbUrl(1)
    /\ 1 \in deleted
    /\ Len(sent[1]) = 1

====
